---- MODULE Spec2Model ----
(***************************************************************************)
(* The generator of a GAIN (Generative Adversarial Imputation Network),    *)
(* GAIN/components/Generator.py: its loss and diagnostic functions and the *)
(* methods of myGenerator (generate, train_with_discrimination,            *)
(* train_with_critic, performance_log_with_discrimination,                 *)
(* performance_log_with_critic).                                           *)
(*                                                                         *)
(* Numbers.  A float32 is a fixed-point integer in thousandths (One is     *)
(* 1.0), NaN or an infinity.  A tensor of rank 2 is a sequence of rows,    *)
(* each row a sequence of numbers; its shape is read off the tensor, as    *)
(* tf.shape does.  A product is rescaled by One and rounded down, a        *)
(* quotient likewise.  Zero has no sign: -0.0 is 0.                         *)
(*                                                                         *)
(* Collaborators.  The body (a keras model), the discriminator, the critic *)
(* and the optimizer are supplied by the caller.  Each is modelled by one  *)
(* deterministic stand-in that reads all of its arguments, so that what    *)
(* the generator passes to it decides what it returns.  Every call of a    *)
(* collaborator is recorded, in order, in the trace of the method call.    *)
(* The gradient the tape returns is the reverse-mode derivative of the     *)
(* forward pass through these stand-ins, operation by operation.           *)
(***************************************************************************)
EXTENDS Integers, Sequences, FiniteSets

VARIABLES body, theta, call

vars == <<body, theta, call>>

----------------------------------------------------------------------------
(* Bounds of the model *)

\* rows of a data batch given to the generator's methods
BatchRows == 1
\* columns (features) of every tensor
Cols == 2
\* rows of the tensors given to the loss and diagnostic functions
Rows == 2
\* the parameter of a stored model ranges over -ThetaSteps..ThetaSteps halves
ThetaSteps == 3

----------------------------------------------------------------------------
(* float32 *)

One == 1000
Half == 500
NaN == -999999999
PosInf == 888888888
NegInf == -888888888

IsInf(a) == a = PosInf \/ a = NegInf

Neg(a) ==
    CASE a = NaN -> NaN
      [] a = PosInf -> NegInf
      [] a = NegInf -> PosInf
      [] OTHER -> 0 - a

Add(a, b) ==
    CASE a = NaN \/ b = NaN -> NaN
      [] IsInf(a) /\ IsInf(b) -> IF a = b THEN a ELSE NaN
      [] IsInf(a) -> a
      [] IsInf(b) -> b
      [] OTHER -> a + b

Sub(a, b) == Add(a, Neg(b))

Sign(a) == IF a > 0 THEN 1 ELSE IF a < 0 THEN -1 ELSE 0

\* the product; 0 times an infinity is NaN
Mul(a, b) ==
    CASE a = NaN \/ b = NaN -> NaN
      [] IsInf(a) \/ IsInf(b) ->
            IF a = 0 \/ b = 0 THEN NaN
            ELSE IF Sign(a) = Sign(b) THEN PosInf ELSE NegInf
      [] OTHER -> (a * b) \div One

\* the quotient; 0/0 is NaN, a nonzero number or an infinity over 0 is an
\* infinity of its sign
Div(a, b) ==
    CASE a = NaN \/ b = NaN -> NaN
      [] IsInf(a) -> IF IsInf(b) THEN NaN
                     ELSE IF b >= 0 THEN a ELSE Neg(a)
      [] IsInf(b) -> 0
      [] b = 0 -> IF a = 0 THEN NaN ELSE IF a > 0 THEN PosInf ELSE NegInf
      [] OTHER -> (a * One) \div b

\* tf.math.log(d + 1e-8) on the grid of quarters; the log of a negative is NaN
LogEps(d) ==
    CASE d = NaN -> NaN
      [] d = PosInf -> PosInf
      [] d # NaN /\ d < 0 -> NaN
      [] d = 0 -> -18421
      [] d = 250 -> -1386
      [] d = Half -> -693
      [] d = 750 -> -288
      [] d = One -> 0

\* 1 / (d + 1e-8), the derivative of tf.math.log(d + 1e-8); at d = 0 it is
\* 10^8, which is past the integers TLC holds
Recip(d) == IF d = 0 THEN 100000 * One * One ELSE Div(One, d)

\* tf.clip_by_value(a, 0, 1)
Clip01(a) == IF a = NaN THEN NaN ELSE IF a < 0 THEN 0 ELSE IF a > One THEN One ELSE a

\* the gradient tf.clip_by_value(x, 0, 1), a minimum with 1 and then a
\* maximum with 0, hands back of the gradient g of its output: g where
\* x <= 1 and x >= 0, zero elsewhere (also where x is NaN)
ClipGrad(x, g) == IF x # NaN /\ x <= One /\ x >= 0 THEN g ELSE 0

----------------------------------------------------------------------------
(* tensors of rank 2 *)

NRows(t) == Len(t)
NCols(t) == Len(t[1])
Entries(t) == (1..NRows(t)) \X (1..NCols(t))

Tensors(r, c, V) == [1..r -> [1..c -> V]]

\* the sequence s as a tuple of its elements, each computed once
Eval(s) == s \o <<>>

\* the tensor of the shape of t whose entries the function F gives
Tensor(t, F) == Eval([i \in 1..NRows(t) |-> Eval([j \in 1..NCols(t) |-> F[i, j]])])

TAdd(a, b) == Tensor(a, [i \in 1..NRows(a), j \in 1..NCols(a) |-> Add(a[i][j], b[i][j])])
TSub(a, b) == Tensor(a, [i \in 1..NRows(a), j \in 1..NCols(a) |-> Sub(a[i][j], b[i][j])])
TMul(a, b) == Tensor(a, [i \in 1..NRows(a), j \in 1..NCols(a) |-> Mul(a[i][j], b[i][j])])
\* 1 - mask
OneMinus(m) == Tensor(m, [i \in 1..NRows(m), j \in 1..NCols(m) |-> Sub(One, m[i][j])])
\* tf.math.log(d + 1e-8), entry by entry
TLogEps(d) == Tensor(d, [i \in 1..NRows(d), j \in 1..NCols(d) |-> LogEps(d[i][j])])

RECURSIVE SumSeq(_)
SumSeq(s) == IF s = <<>> THEN 0 ELSE Add(s[1], SumSeq(Tail(s)))

\* row-major flattening
Flatten(t) ==
    Eval([k \in 1..(NRows(t) * NCols(t)) |->
            t[((k - 1) \div NCols(t)) + 1][((k - 1) % NCols(t)) + 1]])

reduce_sum(t) == SumSeq(Flatten(t))
reduce_mean(t) == Div(reduce_sum(t), NRows(t) * NCols(t) * One)

\* tf.concat(axis=1, values=[a, b])
concat1(a, b) == Eval([i \in 1..NRows(a) |-> a[i] \o b[i]])
\* the two halves of tf.split(t, 2, axis=1)
split1(t) ==
    LET c == NCols(t) \div 2
    IN  << Eval([i \in 1..NRows(t) |-> SubSeq(t[i], 1, c)]),
           Eval([i \in 1..NRows(t) |-> SubSeq(t[i], c + 1, 2 * c)]) >>

----------------------------------------------------------------------------
(* the module-level functions of Generator.py *)

\* (mutation of get_generator_logLoss: the log-likelihoods are not weighted
\* by 1-mask)
get_generator_logLoss_unweighted(discriminations, mask) ==
    Div(Neg(reduce_sum(TLogEps(discriminations))), reduce_sum(OneMinus(mask)))

\* -tf.reduce_sum((1-mask) * tf.math.log(discriminations + 1e-8))
\*    / tf.reduce_sum(1-mask)
get_generator_logLoss(discriminations, mask) ==
    Div(Neg(reduce_sum(TMul(OneMinus(mask), TLogEps(discriminations)))),
        reduce_sum(OneMinus(mask)))

\* the backward pass of get_generator_logLoss: the gradient of the loss with
\* respect to discriminations (division, negation, sum, product, log)
get_generator_logLoss_grad(discriminations, mask) ==
    LET g_sum == Neg(Div(One, reduce_sum(OneMinus(mask))))
    IN  Tensor(mask, [i \in 1..NRows(mask), j \in 1..NCols(mask) |->
                         Mul(Mul(g_sum, Sub(One, mask[i][j])),
                             Recip(discriminations[i][j]))])

\* the default body: ignores the values of its input and returns a fresh
\* uniform draw (here: the draw u) of the shape of the input's first half
generate_random(input, u) ==
    LET masked_sample_x == split1(input)[1]
    IN  Tensor(masked_sample_x,
               [i \in 1..NRows(masked_sample_x), j \in 1..NCols(masked_sample_x) |-> u[i][j]])

\* ones in every column but the last, zeros in the last
get_test_mask(x) ==
    Tensor(x, [i \in 1..NRows(x), j \in 1..NCols(x) |->
                  IF j <= NCols(x) - 1 THEN One ELSE 0])

\* tf.gather(x, [ncols-1], axis=1): the last column, as a column
get_last_column(x) == Eval([i \in 1..NRows(x) |-> <<x[i][NCols(x)]>>])

\* (mutation of where: the indices in column-major order)
where_column_major(t) ==
    LET idx == Eval([k \in 1..(NRows(t) * NCols(t)) |->
                        <<((k - 1) % NRows(t)) + 1, ((k - 1) \div NRows(t)) + 1>>])
        nonzero(e) == t[e[1]][e[2]] # 0
    IN  SelectSeq(idx, nonzero)

\* tf.where(t): the indices of the nonzero entries of t, in row-major order
where(t) ==
    LET idx == Eval([k \in 1..(NRows(t) * NCols(t)) |->
                        <<((k - 1) \div NCols(t)) + 1, ((k - 1) % NCols(t)) + 1>>])
        nonzero(e) == t[e[1]][e[2]] # 0
    IN  SelectSeq(idx, nonzero)

\* tf.gather_nd(t, indices)
gather_nd(t, indices) ==
    Eval([k \in 1..Len(indices) |-> t[indices[k][1]][indices[k][2]]])

get_generated_value_errors(mask, hint_mask, x, generated_x) ==
    gather_nd(TSub(generated_x, x), where(TMul(OneMinus(mask), OneMinus(hint_mask))))

\* tf.reduce_sum(mask*(data_batch-generated_data)**2) / tf.reduce_sum(mask)
get_total_generator_truth_error(data_batch, generated_data, mask) ==
    LET d == TSub(data_batch, generated_data)
    IN  Div(reduce_sum(TMul(mask, TMul(d, d))), reduce_sum(mask))

----------------------------------------------------------------------------
(* the collaborators the caller supplies *)

\* A keras body with one trainable variable th: a residual layer that adds
\* the bias th to the value half of its input, lowers the entries the mask
\* half marks as observed by a half, and squashes the sum into [0,1].
\* keras_pre is the sum before it is squashed.
keras_pre(th, input) ==
    LET value == split1(input)[1]
        m == split1(input)[2]
    IN  Tensor(value, [i \in 1..NRows(value), j \in 1..NCols(value) |->
                          Sub(Add(value[i][j], th), Mul(Half, m[i][j]))])

keras_body(th, input) ==
    LET pre == keras_pre(th, input)
    IN  Tensor(pre, [i \in 1..NRows(pre), j \in 1..NCols(pre) |-> Clip01(pre[i][j])])

\* the backward pass of keras_body: the gradient of the bias th, given the
\* gradient g of the body's output
keras_body_grad(th, input, g) ==
    LET pre == keras_pre(th, input)
    IN  reduce_sum(Tensor(pre, [i \in 1..NRows(pre), j \in 1..NCols(pre) |->
                                   ClipGrad(pre[i][j], g[i][j])]))

\* self.body(input): the default function or the keras model
call_body(b, th, input, u) ==
    IF b = "generate_random" THEN generate_random(input, u) ELSE keras_body(th, input)

Quarter == 250

\* a discriminator: the probability that an entry is genuine, here a quarter
\* more than the mean of the entry and its hint, squashed into [0,1]
discriminate_fn(data, hints) ==
    Tensor(data, [i \in 1..NRows(data), j \in 1..NCols(data) |->
                     Clip01(Add(Mul(Half, Add(data[i][j], hints[i][j])), Quarter))])

\* the backward pass of discriminate_fn: the gradient of data, given the
\* gradient g of the probabilities
discriminate_fn_grad(data, hints, g) ==
    Tensor(data, [i \in 1..NRows(data), j \in 1..NCols(data) |->
                     Mul(Half, ClipGrad(Add(Mul(Half, Add(data[i][j], hints[i][j])), Quarter),
                                        g[i][j]))])

\* a critic: an unbounded score, here the hint less the entry
criticise_fn(data, hints) == TSub(hints, data)

\* the backward pass of criticise_fn: the gradient of data, given the
\* gradient g of the scores
criticise_fn_grad(data, hints, g) ==
    Tensor(data, [i \in 1..NRows(data), j \in 1..NCols(data) |-> Neg(g[i][j])])

\* optimizer.apply_gradients on the one trainable variable: a signed step of
\* a half against the gradient; a NaN gradient makes the variable NaN
\* (a sign-descent optimizer with learning rate 0.5)
apply_gradients(th, g) ==
    IF th = NaN \/ g = NaN THEN NaN ELSE th - Sign(g) * Half

----------------------------------------------------------------------------
(* myGenerator *)

\* one recorded call of a collaborator: the callee, its tensor arguments,
\* what it returned and, for the tape and the optimizer, the variables named
Ev(callee, arg, arg2, ret, variables) ==
    [callee |-> callee, arg |-> arg, arg2 |-> arg2, ret |-> ret, variables |-> variables]

TrainableVariables == "body.trainable_variables"

\* (mutation of body_input: the observed values are not masked in)
body_input_unmasked(x, mask, noise) ==
    LET masked_sample == TMul(OneMinus(mask), noise)
    IN  concat1(TAdd(x, masked_sample), mask)

\* generate, up to the body call: the tensor handed to the body.
\* noise is the tf.random.uniform draw of this call.
body_input(x, mask, noise) ==
    LET masked_x == TMul(mask, x)
        masked_sample == TMul(OneMinus(mask), noise)
    IN  concat1(TAdd(masked_x, masked_sample), mask)

\* generate(x, mask) of a generator whose body is b with parameter th;
\* u is the draw of the default body (unused by a keras body)
generate(b, th, x, mask, noise, u) == call_body(b, th, body_input(x, mask, noise), u)

\* (mutation of adjusted: the ground truth is added in unmasked)
adjusted_unmasked_truth(generated_data, mask, data_batch) ==
    TAdd(TMul(generated_data, OneMinus(mask)), data_batch)

\* generated_data*(1-mask)+mask*data_batch
adjusted(generated_data, mask, data_batch) ==
    TAdd(TMul(generated_data, OneMinus(mask)), TMul(mask, data_batch))

\* the forward pass under the tape of train_with_discrimination
discrimination_loss(b, th, data_batch, mask, hints, noise, u) ==
    LET generated_data == generate(b, th, data_batch, mask, noise, u)
        adjusted_generated_data == adjusted(generated_data, mask, data_batch)
        discriminations == discriminate_fn(adjusted_generated_data, hints)
    IN  get_generator_logLoss(discriminations, mask)

\* the forward pass under the tape of train_with_critic
critic_loss(b, th, data_batch, mask, hints, noise, u) ==
    LET generated_data == generate(b, th, data_batch, mask, noise, u)
        adjusted_generated_data == adjusted(generated_data, mask, data_batch)
        critics == criticise_fn(adjusted_generated_data, hints)
    IN  Neg(reduce_mean(critics))

\* the backward pass of the blend: the gradient of generated_data, given the
\* gradient g of adjusted_generated_data
adjusted_grad(g, mask) == TMul(g, OneMinus(mask))

\* tape.gradient(loss, self.body.trainable_variables) in
\* train_with_discrimination: the backward pass through the loss, the
\* discriminator, the blend and the body, at the parameter th
discrimination_gradient(th, data_batch, mask, hints, noise) ==
    LET input == body_input(data_batch, mask, noise)
        generated_data == keras_body(th, input)
        adjusted_generated_data == adjusted(generated_data, mask, data_batch)
        discriminations == discriminate_fn(adjusted_generated_data, hints)
        g_discriminations == get_generator_logLoss_grad(discriminations, mask)
        g_adjusted == discriminate_fn_grad(adjusted_generated_data, hints, g_discriminations)
    IN  keras_body_grad(th, input, adjusted_grad(g_adjusted, mask))

\* tape.gradient(critic_loss, self.body.trainable_variables) in
\* train_with_critic: the backward pass through the negated mean, the
\* critic, the blend and the body, at the parameter th
critic_gradient(th, data_batch, mask, hints, noise) ==
    LET input == body_input(data_batch, mask, noise)
        generated_data == keras_body(th, input)
        adjusted_generated_data == adjusted(generated_data, mask, data_batch)
        n == NRows(data_batch) * NCols(data_batch)
        g_critics == Tensor(mask, [i \in 1..NRows(mask), j \in 1..NCols(mask) |->
                                      Neg(Div(One, n * One))])
        g_adjusted == criticise_fn_grad(adjusted_generated_data, hints, g_critics)
    IN  keras_body_grad(th, input, adjusted_grad(g_adjusted, mask))

\* What a method call leaves behind: its arguments a, the random draws it
\* made, the collaborator calls it made in order, whether it raised, what it
\* returned and the parameter it leaves.
Outcome(op, a, draws, trace, raised, result, th) ==
    [op |-> op, data_batch |-> a.data_batch, mask |-> a.mask, hints |-> a.hints,
     hint_mask |-> a.hint_mask, alpha |-> a.alpha, raise_at |-> a.raise_at,
     draws |-> draws, trace |-> trace, raised |-> raised, result |-> result,
     theta_before |-> theta, theta_after |-> th]

\* the arguments of a method call (<<>> for one the method does not take)
Args(data_batch, mask, hints, hint_mask, alpha, raise_at) ==
    [data_batch |-> data_batch, mask |-> mask, hints |-> hints, hint_mask |-> hint_mask,
     alpha |-> alpha, raise_at |-> raise_at]

\* The steps train_with_discrimination and train_with_critic share, given
\* the values f of their forward pass (the body's input and output, the
\* blend, its scores, the loss) and the gradient.  a.raise_at names the
\* collaborator that raises in this call ("none": no one does).  A body that
\* is a plain function has no trainable_variables: reading them raises
\* AttributeError.
train(op, a, draws, f, loss_gradients) ==
    LET e_body == Ev("body", f.input, <<>>, f.generated_data, "")
        e_score == Ev("score", f.adjusted_generated_data, a.hints, f.scores, "")
        e_grad == Ev("gradient", <<f.loss>>, <<>>, <<loss_gradients>>, TrainableVariables)
        e_apply == Ev("apply_gradients", <<loss_gradients>>, <<>>, <<>>, TrainableVariables)
    IN  CASE a.raise_at = "body" -> Outcome(op, a, draws, <<>>, TRUE, <<>>, theta)
          [] a.raise_at = "score" -> Outcome(op, a, draws, <<e_body>>, TRUE, <<>>, theta)
          [] a.raise_at = "gradient" \/ (a.raise_at = "none" /\ body = "generate_random") ->
                Outcome(op, a, draws, <<e_body, e_score>>, TRUE, <<>>, theta)
          [] a.raise_at = "none" /\ body # "generate_random" ->
                Outcome(op, a, draws, <<e_body, e_score, e_grad, e_apply>>, FALSE,
                        <<f.loss>>, apply_gradients(theta, loss_gradients))

\* the forward pass of a training call up to the scoring function's argument
forward(data_batch, mask, noise, u) ==
    LET input == body_input(data_batch, mask, noise)
        generated_data == call_body(body, theta, input, u)
    IN  [input |-> input, generated_data |-> generated_data,
         adjusted_generated_data |-> adjusted(generated_data, mask, data_batch)]

\* the draws of a call that generates once
draws_of(noise, u) == IF body = "generate_random" THEN <<noise, u>> ELSE <<noise>>

\* (mutation of train_with_discrimination: an exception of the gradient
\* computation is swallowed and the step goes on)
train_with_discrimination_swallows(data_batch, mask, hints, alpha, raise_at, noise, u) ==
    LET fw == forward(data_batch, mask, noise, u)
        discriminations == discriminate_fn(fw.adjusted_generated_data, hints)
        loss == get_generator_logLoss(discriminations, mask)
        a == Args(data_batch, mask, hints, <<>>, alpha,
                  IF raise_at = "gradient" THEN "none" ELSE raise_at)
        o == train("train_with_discrimination", a, draws_of(noise, u),
                   [input |-> fw.input, generated_data |-> fw.generated_data,
                    adjusted_generated_data |-> fw.adjusted_generated_data,
                    scores |-> discriminations, loss |-> loss],
                   discrimination_gradient(theta, data_batch, mask, hints, noise))
    IN  [o EXCEPT !.raise_at = raise_at]

train_with_discrimination(data_batch, mask, hints, alpha, raise_at, noise, u) ==
    LET fw == forward(data_batch, mask, noise, u)
        discriminations == discriminate_fn(fw.adjusted_generated_data, hints)
        loss == get_generator_logLoss(discriminations, mask)
    IN  train("train_with_discrimination",
              Args(data_batch, mask, hints, <<>>, alpha, raise_at), draws_of(noise, u),
              [input |-> fw.input, generated_data |-> fw.generated_data,
               adjusted_generated_data |-> fw.adjusted_generated_data,
               scores |-> discriminations, loss |-> loss],
              discrimination_gradient(theta, data_batch, mask, hints, noise))

\* (mutation of train_with_critic: the optimizer step is made twice)
train_with_critic_steps_twice(data_batch, mask, hints, alpha, raise_at, noise, u) ==
    LET fw == forward(data_batch, mask, noise, u)
        critics == criticise_fn(fw.adjusted_generated_data, hints)
        loss == Neg(reduce_mean(critics))
        o == train("train_with_critic",
                   Args(data_batch, mask, hints, <<>>, alpha, raise_at), draws_of(noise, u),
                   [input |-> fw.input, generated_data |-> fw.generated_data,
                    adjusted_generated_data |-> fw.adjusted_generated_data,
                    scores |-> critics, loss |-> loss],
                   critic_gradient(theta, data_batch, mask, hints, noise))
    IN  IF o.raised THEN o
        ELSE [o EXCEPT !.trace = Append(@, @[4]),
                       !.theta_after = apply_gradients(@, o.trace[3].ret[1])]

\* (mutation of train_with_critic: the mean is taken over the missing
\* entries only)
train_with_critic_masked_mean(data_batch, mask, hints, alpha, raise_at, noise, u) ==
    LET fw == forward(data_batch, mask, noise, u)
        critics == criticise_fn(fw.adjusted_generated_data, hints)
        loss == Neg(Div(reduce_sum(TMul(OneMinus(mask), critics)),
                        reduce_sum(OneMinus(mask))))
    IN  train("train_with_critic",
              Args(data_batch, mask, hints, <<>>, alpha, raise_at), draws_of(noise, u),
              [input |-> fw.input, generated_data |-> fw.generated_data,
               adjusted_generated_data |-> fw.adjusted_generated_data,
               scores |-> critics, loss |-> loss],
              critic_gradient(theta, data_batch, mask, hints, noise))

train_with_critic(data_batch, mask, hints, alpha, raise_at, noise, u) ==
    LET fw == forward(data_batch, mask, noise, u)
        critics == criticise_fn(fw.adjusted_generated_data, hints)
        critic_loss_value == Neg(reduce_mean(critics))
    IN  train("train_with_critic",
              Args(data_batch, mask, hints, <<>>, alpha, raise_at), draws_of(noise, u),
              [input |-> fw.input, generated_data |-> fw.generated_data,
               adjusted_generated_data |-> fw.adjusted_generated_data,
               scores |-> critics, loss |-> critic_loss_value],
              critic_gradient(theta, data_batch, mask, hints, noise))

\* the summaries of one performance log, in the order they are written
tag(prefix, name) == <<prefix, name>>

performance_log_with_discrimination(prefix, a, epoch, noise1, u1, noise2, u2) ==
    LET data_batch == a.data_batch
        mask == a.mask
        hints == a.hints
        hint_mask == a.hint_mask
        test_mask == get_test_mask(data_batch)
        input1 == body_input(data_batch, test_mask, noise1)
        generatedLastCol == call_body(body, theta, input1, u1)
        input2 == body_input(data_batch, mask, noise2)
        generated_data == call_body(body, theta, input2, u2)
        adjusted_generated_data == adjusted(generated_data, mask, data_batch)
        discriminated_probs == discriminate_fn(adjusted_generated_data, hints)
        generator_loss == get_generator_logLoss(discriminated_probs, mask)
        draws == IF body = "generate_random" THEN <<noise1, u1, noise2, u2>>
                 ELSE <<noise1, noise2>>
    IN  Outcome("performance_log_with_discrimination", a, draws,
                << Ev("body", input1, <<>>, generatedLastCol, ""),
                   Ev("body", input2, <<>>, generated_data, ""),
                   Ev("score", adjusted_generated_data, hints, discriminated_probs, ""),
                   Ev("scalar", <<generator_loss>>, <<epoch>>, <<>>,
                      tag(prefix, " generator_loss")),
                   Ev("scalar",
                      <<get_total_generator_truth_error(data_batch, generated_data, mask)>>,
                      <<epoch>>, <<>>, tag(prefix, " know value regeneration error")),
                   Ev("histogram",
                      get_generated_value_errors(mask, hint_mask, data_batch, generated_data),
                      <<epoch>>, <<>>, tag(prefix, " hidden value generation errors")),
                   Ev("histogram", get_last_column(generatedLastCol), <<epoch>>, <<>>,
                      tag(prefix, " generated last column distribution")),
                   Ev("histogram", get_last_column(data_batch), <<epoch>>, <<>>,
                      tag(prefix, " actual last column distribution")) >>,
                FALSE, <<>>, theta)

performance_log_with_critic(prefix, a, epoch, noise1, u1, noise2, u2) ==
    LET data_batch == a.data_batch
        mask == a.mask
        hints == a.hints
        hint_mask == a.hint_mask
        test_mask == get_test_mask(data_batch)
        input1 == body_input(data_batch, test_mask, noise1)
        generatedLastCol == call_body(body, theta, input1, u1)
        input2 == body_input(data_batch, mask, noise2)
        generated_data == call_body(body, theta, input2, u2)
        adjusted_generated_data == adjusted(generated_data, mask, data_batch)
        generated_critics == criticise_fn(adjusted_generated_data, hints)
        generated_critics_mean == reduce_mean(generated_critics)
        genuine_critics == criticise_fn(data_batch, hints)
        genuine_critics_mean == reduce_mean(genuine_critics)
        critic_loss_logged == Sub(generated_critics_mean, genuine_critics_mean)
        draws == IF body = "generate_random" THEN <<noise1, u1, noise2, u2>>
                 ELSE <<noise1, noise2>>
    IN  Outcome("performance_log_with_critic", a, draws,
                << Ev("body", input1, <<>>, generatedLastCol, ""),
                   Ev("body", input2, <<>>, generated_data, ""),
                   Ev("score", adjusted_generated_data, hints, generated_critics, ""),
                   Ev("score", data_batch, hints, genuine_critics, ""),
                   Ev("scalar",
                      <<get_total_generator_truth_error(data_batch, generated_data, mask)>>,
                      <<epoch>>, <<>>, tag(prefix, " know value regeneration error")),
                   Ev("scalar", <<critic_loss_logged>>, <<epoch>>, <<>>,
                      tag(prefix, " critic_loss")),
                   Ev("scalar", <<genuine_critics_mean>>, <<epoch>>, <<>>,
                      tag(prefix, " genuine_critics_mean")),
                   Ev("scalar", <<generated_critics_mean>>, <<epoch>>, <<>>,
                      tag(prefix, " generated_critics_mean")),
                   Ev("histogram",
                      get_generated_value_errors(mask, hint_mask, data_batch, generated_data),
                      <<epoch>>, <<>>, tag(prefix, " hidden value generation errors")),
                   Ev("histogram", get_last_column(generatedLastCol), <<epoch>>, <<>>,
                      tag(prefix, " generated last column distribution")),
                   Ev("histogram", get_last_column(data_batch), <<epoch>>, <<>>,
                      tag(prefix, " actual last column distribution")) >>,
                FALSE, <<>>, theta)

----------------------------------------------------------------------------
(* the inputs the calls are drawn from *)

\* the values of a data batch, scaled to [0,1]
Grid == {0, Half, One}
\* the values tf.random.uniform(minval=0, maxval=1) can draw: [0,1)
UniformValues == {v \in Grid : v < One}

Data(r) == Tensors(r, Cols, Grid)
Masks(r) == Tensors(r, Cols, {0, One})
Uniform(r) == Tensors(r, Cols, UniformValues)

\* hints: 1 = genuine, 0 = generated, 0.5 = unknown; the hint mask marks
\* the entries whose mask value the hints disclose
hints_of(mask, hint_mask) ==
    Tensor(mask, [i \in 1..NRows(mask), j \in 1..NCols(mask) |->
                     IF hint_mask[i][j] = One THEN mask[i][j] ELSE Half])

Hints(mask) == {hints_of(mask, hint_mask) : hint_mask \in Masks(NRows(mask))}

\* the draws of the default body; a keras body draws nothing
BodyDraws(r) == IF body = "generate_random" THEN Uniform(r) ELSE {<<>>}

Alphas == {0, One}
RaiseAt == {"none", "body", "score", "gradient"}
Prefixes == {"train"}
Epochs == {1}

\* the parameter of the keras models that load may find stored, among them
\* every model that save can have written
StoredThetas == {k * Half : k \in (0 - ThetaSteps)..ThetaSteps} \cup {NaN}

\* the arguments of save and load: none of the tensors
NoArgs == Args(<<>>, <<>>, <<>>, <<>>, <<>>, "none")

----------------------------------------------------------------------------
(* the generator as a state machine: one action per method.  Training      *)
(* moves the parameter by halves and stops moving it where the body is     *)
(* saturated at every missing entry, beyond -1.0 and 1.5.                  *)

\* no call in progress: the caller holds the generator
Idle(th) ==
    [op |-> "idle", data_batch |-> <<>>, mask |-> <<>>, hints |-> <<>>,
     hint_mask |-> <<>>, alpha |-> <<>>, raise_at |-> "none", draws |-> <<>>,
     trace |-> <<>>, raised |-> FALSE, result |-> <<>>, theta_before |-> th, theta_after |-> th]

\* myGenerator(body): the default body or a keras model
Init ==
    /\ body \in {"generate_random", "keras"}
    /\ theta = 0
    /\ call = Idle(0)

Generate ==
    call.op = "idle" /\
    \E x \in Data(BatchRows), mask \in Masks(BatchRows), noise \in Uniform(BatchRows) :
      \E u \in BodyDraws(BatchRows) :
        LET input == body_input(x, mask, noise)
            output == call_body(body, theta, input, u)
        IN  /\ call' = Outcome("generate", Args(x, mask, <<>>, <<>>, <<>>, "none"),
                               draws_of(noise, u),
                               <<Ev("body", input, <<>>, output, "")>>,
                               FALSE, output, theta)
            /\ UNCHANGED <<body, theta>>

TrainWithDiscrimination ==
    call.op = "idle" /\
    \E data_batch \in Data(BatchRows), mask \in Masks(BatchRows), alpha \in Alphas,
       raise_at \in RaiseAt, noise \in Uniform(BatchRows) :
      \E hints \in Hints(mask), u \in BodyDraws(BatchRows) :
        /\ call' = train_with_discrimination(data_batch, mask, hints, alpha, raise_at, noise, u)
        /\ theta' = call'.theta_after
        /\ UNCHANGED body

TrainWithCritic ==
    call.op = "idle" /\
    \E data_batch \in Data(BatchRows), mask \in Masks(BatchRows), alpha \in Alphas,
       raise_at \in RaiseAt, noise \in Uniform(BatchRows) :
      \E hints \in Hints(mask), u \in BodyDraws(BatchRows) :
        /\ call' = train_with_critic(data_batch, mask, hints, alpha, raise_at, noise, u)
        /\ theta' = call'.theta_after
        /\ UNCHANGED body

\* (mutation of PerformanceLogWithDiscrimination: the log takes an
\* optimizer step on the loss it logs)
PerformanceLogWithDiscriminationSteps ==
    call.op = "idle" /\
    \E data_batch \in Data(BatchRows), mask \in Masks(BatchRows),
       hint_mask \in Masks(BatchRows), prefix \in Prefixes, epoch \in Epochs,
       noise1 \in Uniform(BatchRows), noise2 \in Uniform(BatchRows) :
      \E u1 \in BodyDraws(BatchRows), u2 \in BodyDraws(BatchRows) :
        /\ call' = performance_log_with_discrimination(
                       prefix,
                       Args(data_batch, mask, hints_of(mask, hint_mask), hint_mask, <<>>, "none"),
                       epoch, noise1, u1, noise2, u2)
        /\ theta' = IF body = "keras" THEN apply_gradients(theta, call'.trace[4].arg[1])
                    ELSE theta
        /\ UNCHANGED body

PerformanceLogWithDiscrimination ==
    call.op = "idle" /\
    \E data_batch \in Data(BatchRows), mask \in Masks(BatchRows),
       hint_mask \in Masks(BatchRows), prefix \in Prefixes, epoch \in Epochs,
       noise1 \in Uniform(BatchRows), noise2 \in Uniform(BatchRows) :
      \E u1 \in BodyDraws(BatchRows), u2 \in BodyDraws(BatchRows) :
        /\ call' = performance_log_with_discrimination(
                       prefix,
                       Args(data_batch, mask, hints_of(mask, hint_mask), hint_mask, <<>>, "none"),
                       epoch, noise1, u1, noise2, u2)
        /\ UNCHANGED <<body, theta>>

PerformanceLogWithCritic ==
    call.op = "idle" /\
    \E data_batch \in Data(BatchRows), mask \in Masks(BatchRows),
       hint_mask \in Masks(BatchRows), prefix \in Prefixes, epoch \in Epochs,
       noise1 \in Uniform(BatchRows), noise2 \in Uniform(BatchRows) :
      \E u1 \in BodyDraws(BatchRows), u2 \in BodyDraws(BatchRows) :
        /\ call' = performance_log_with_critic(
                       prefix,
                       Args(data_batch, mask, hints_of(mask, hint_mask), hint_mask, <<>>, "none"),
                       epoch, noise1, u1, noise2, u2)
        /\ UNCHANGED <<body, theta>>

\* save(path): self.body.save(path).  The default body is a plain function
\* and has no save: AttributeError.  What is written is outside the generator.
Save ==
    /\ call.op = "idle"
    /\ call' = Outcome("save", NoArgs, <<>>,
                       IF body = "generate_random" THEN <<>>
                       ELSE <<Ev("body.save", <<theta>>, <<>>, <<>>, "")>>,
                       body = "generate_random", <<>>, theta)
    /\ UNCHANGED <<body, theta>>

\* load(path): self.body = tf.keras.models.load_model(path).  The body becomes
\* the stored keras model, with the parameter it was stored with; when
\* load_model raises (nothing is stored at path) the body stays as it was.
Load ==
    /\ call.op = "idle"
    /\ \/ \E stored \in StoredThetas :
             /\ call' = Outcome("load", NoArgs, <<>>,
                                <<Ev("load_model", <<>>, <<>>, <<stored>>, "")>>,
                                FALSE, <<>>, stored)
             /\ body' = "keras"
             /\ theta' = stored
       \/ /\ call' = Outcome("load", NoArgs, <<>>, <<Ev("load_model", <<>>, <<>>, <<>>, "")>>,
                              TRUE, <<>>, theta)
          /\ UNCHANGED <<body, theta>>

\* the call returns (or its exception reaches the caller), and the caller
\* is free to make the next call
Return ==
    /\ call.op # "idle"
    /\ call' = Idle(theta)
    /\ UNCHANGED <<body, theta>>

Next ==
    \/ Generate
    \/ TrainWithDiscrimination
    \/ TrainWithCritic
    \/ PerformanceLogWithDiscrimination
    \/ PerformanceLogWithCritic
    \/ Save
    \/ Load
    \/ Return

Spec == Init /\ [][Next]_vars

----------------------------------------------------------------------------
(* get_generated_value_errors on its own, on tensors of Rows rows: the     *)
(* arguments are drawn first, then the function is applied to them.        *)

ErrorArgs(mask, hint_mask, x, generated_x) ==
    [op |-> "get_generated_value_errors", mask |-> mask, hint_mask |-> hint_mask,
     x |-> x, generated_x |-> generated_x, done |-> FALSE, result |-> <<>>]

InitFn ==
    /\ body = "keras"
    /\ theta = 0
    /\ call \in {ErrorArgs(mask, hint_mask, x, generated_x) :
                    mask \in Masks(Rows), hint_mask \in Masks(Rows),
                    x \in Tensors(Rows, Cols, {0, One}),
                    generated_x \in Uniform(Rows)}

GetGeneratedValueErrors ==
    /\ ~call.done
    /\ call' = [call EXCEPT
                  !.done = TRUE,
                  !.result = get_generated_value_errors(call.mask, call.hint_mask,
                                                        call.x, call.generated_x)]
    /\ UNCHANGED <<body, theta>>

NextFn == GetGeneratedValueErrors

SpecFn == InitFn /\ [][NextFn]_vars

----------------------------------------------------------------------------
(* Properties.  They read the record of the call just made: its arguments, *)
(* its draws, the collaborator calls in its trace, its result.             *)

IsBody(e) == e.callee = "body"
IsScore(e) == e.callee = "score"
IsApply(e) == e.callee = "apply_gradients"
IsGradient(e) == e.callee = "gradient"

TrainOps == {"train_with_discrimination", "train_with_critic"}
LogOps == {"performance_log_with_discrimination", "performance_log_with_critic"}

Callees(c) == [k \in 1..Len(c.trace) |-> c.trace[k].callee]

\* the generate calls a method call made: the mask and the uniform draw of
\* each and the body call it led to
GenerateCalls(c) ==
    LET second == IF body = "generate_random" THEN 3 ELSE 2
    IN  CASE c.op = "generate" \/ (c.op \in TrainOps /\ c.trace # <<>>) ->
                << [mask |-> c.mask, noise |-> c.draws[1], ev |-> c.trace[1]] >>
          [] c.op \in LogOps ->
                << [mask |-> get_test_mask(c.data_batch), noise |-> c.draws[1],
                    ev |-> c.trace[1]],
                   [mask |-> c.mask, noise |-> c.draws[second], ev |-> c.trace[2]] >>
          [] OTHER -> <<>>

\* the tensor t is: x where the mask is 1, the draw where it is 0, and then
\* the mask, column by column
IsMaskedInput(t, x, mask, noise) ==
    /\ NRows(t) = NRows(x)
    /\ NCols(t) = 2 * NCols(x)
    /\ \A e \in Entries(x) :
          /\ mask[e[1]][e[2]] = One => t[e[1]][e[2]] = x[e[1]][e[2]]
          /\ mask[e[1]][e[2]] = 0 =>
                /\ t[e[1]][e[2]] = noise[e[1]][e[2]]
                /\ 0 <= noise[e[1]][e[2]]
                /\ noise[e[1]][e[2]] < One
          /\ t[e[1]][NCols(x) + e[2]] = mask[e[1]][e[2]]

\* C1: generate(x, mask) calls the body exactly once, with a tensor whose
\* first half of columns is x at the entries where mask = 1 and the fresh
\* uniform draw (in [0,1)) where mask = 0, and whose second half is the mask.
\* The same holds of each generate call that a training or log method makes.
C1_GenerateFeedsMaskedInput ==
    /\ call.op = "generate" =>
          /\ Len(SelectSeq(call.trace, IsBody)) = 1
          /\ Len(call.trace) = 1
    /\ call.op \in {"generate"} \cup TrainOps \cup LogOps =>
          \A k \in 1..Len(GenerateCalls(call)) :
             LET g == GenerateCalls(call)[k]
             IN  /\ IsBody(g.ev)
                 /\ IsMaskedInput(g.ev.arg, call.data_batch, g.mask, g.noise)

\* a generate call with an observed and a hidden entry, where the hidden
\* value of x differs from the draw that replaces it
C1_Witness ==
    /\ call.op = "generate"
    /\ \E e1, e2 \in Entries(call.mask) :
          /\ call.mask[e1[1]][e1[2]] = One
          /\ call.mask[e2[1]][e2[2]] = 0
          /\ call.data_batch[e1[1]][e1[2]] # 0
          /\ call.data_batch[e2[1]][e2[2]] # call.draws[1][e2[1]][e2[2]]

\* the first scoring call of a method call and the body call whose output
\* it scores (the generate call with the caller's mask)
ScoredBody(c) == IF c.op \in LogOps THEN c.trace[2] ELSE c.trace[1]
FirstScore(c) == SelectSeq(c.trace, IsScore)[1]
HasScore(c) == SelectSeq(c.trace, IsScore) # <<>>

\* C2: in the training and log methods the tensor handed to the scoring
\* function is data_batch at the entries where mask = 1 and the generator's
\* output where mask = 0, and the hints are handed over unchanged.
C2_ScoredTensorIsBlend ==
    (call.op \in TrainOps \cup LogOps /\ HasScore(call)) =>
        LET s == FirstScore(call)
            g == ScoredBody(call).ret
        IN  /\ s.arg2 = call.hints
            /\ \A e \in Entries(call.mask) :
                  /\ call.mask[e[1]][e[2]] = One =>
                        s.arg[e[1]][e[2]] = call.data_batch[e[1]][e[2]]
                  /\ call.mask[e[1]][e[2]] = 0 => s.arg[e[1]][e[2]] = g[e[1]][e[2]]

\* C3: a completed training call makes one body call, then one scoring
\* call, then one apply_gradients call; the gradients are taken and applied
\* with respect to the body's trainable variables, the gradients applied are
\* those the tape returned, and the value returned is the loss differentiated.
C3_OneForwardBackwardPass ==
    (call.op \in TrainOps /\ ~call.raised) =>
        LET ext(e) == IsBody(e) \/ IsScore(e) \/ IsApply(e)
            calls == SelectSeq(call.trace, ext)
            grads == SelectSeq(call.trace, IsGradient)
            applies == SelectSeq(call.trace, IsApply)
        IN  /\ [k \in 1..Len(calls) |-> calls[k].callee]
                  = <<"body", "score", "apply_gradients">>
            /\ Len(grads) = 1
            /\ grads[1].variables = TrainableVariables
            /\ applies[1].variables = TrainableVariables
            /\ applies[1].arg = grads[1].ret
            /\ call.result = grads[1].arg
            /\ call.theta_after = apply_gradients(call.theta_before, grads[1].ret[1])
            /\ theta = call.theta_after

\* a completed training call that moved the parameter
C3_Witness ==
    /\ call.op = "train_with_critic"
    /\ ~call.raised
    /\ call.theta_before = Half
    /\ theta = 0

RECURSIVE SumOver(_, _)
\* the sum of the entries S of the tensor t
SumOver(t, S) ==
    IF S = {} THEN 0
    ELSE LET e == CHOOSE e \in S : TRUE
         IN  Add(t[e[1]][e[2]], SumOver(t, S \ {e}))

\* a / n for a whole number n > 0
Over(a, n) == IF a = NaN \/ IsInf(a) THEN a ELSE a \div n

\* C5: the loss train_with_critic returns is minus the mean of the critic's
\* scores over all entries, observed and missing alike, whatever alpha is.
C5_CriticLossIsNegativeMean ==
    (call.op = "train_with_critic" /\ ~call.raised) =>
        LET critics == FirstScore(call).ret
            u == IF body = "generate_random" THEN call.draws[2] ELSE <<>>
        IN  /\ call.result
                 = << Neg(Over(SumOver(critics, Entries(critics)),
                               Cardinality(Entries(critics)))) >>
            /\ call.result
                 = << critic_loss(body, call.theta_before, call.data_batch, call.mask,
                                  call.hints, call.draws[1], u) >>

\* a completed train_with_critic call with alpha = 0, an observed and a
\* missing entry whose scores differ, and a loss that is not zero
C5_Witness ==
    /\ call.op = "train_with_critic"
    /\ ~call.raised
    /\ call.alpha = 0
    /\ call.result # <<0>>
    /\ \E e1, e2 \in Entries(call.mask) :
          /\ call.mask[e1[1]][e1[2]] = One
          /\ call.mask[e2[1]][e2[2]] = 0
          /\ FirstScore(call).ret[e1[1]][e1[2]] # FirstScore(call).ret[e2[1]][e2[2]]

\* C7: when the body, the scoring function or the gradient computation
\* raises in a training call, the call raises to its caller, returns nothing,
\* never calls apply_gradients and leaves the parameter as it was.
C7_RaiseLeavesParameters ==
    call.op \in TrainOps =>
        /\ call.raise_at # "none" => call.raised
        /\ call.raised =>
              /\ call.result = <<>>
              /\ SelectSeq(call.trace, IsApply) = <<>>
              /\ call.theta_after = call.theta_before
              /\ theta = call.theta_before

\* the gradient computation raises in a call on a keras body whose forward
\* pass was made: body and scoring function were called, the optimizer not
C7_Witness ==
    /\ call.op = "train_with_discrimination"
    /\ body = "keras"
    /\ call.raise_at = "gradient"
    /\ call.raised
    /\ Callees(call) = <<"body", "score">>
    /\ \E e \in Entries(call.mask) : call.mask[e[1]][e[2]] = 0

Hidden(mask) == {e \in Entries(mask) : mask[e[1]][e[2]] = 0}
Observed(mask) == {e \in Entries(mask) : mask[e[1]][e[2]] = One}

\* the values a discriminator may return for an entry: probabilities
Probabilities == {0, 250, Half, 750, One}

LogOf(d) == TLogEps(d)

\* the discrimination loss a call computed: the value train_with_discrimination
\* returns, the first scalar performance_log_with_discrimination writes
DiscriminationLossOf(c) ==
    IF c.op = "train_with_discrimination" THEN c.result[1] ELSE c.trace[4].arg[1]

\* C4: for a mask with a missing entry the discrimination loss is minus the
\* sum of log(discrimination + 1e-8) over the entries where mask = 0, divided
\* by their number; the discriminator's output at an entry where mask = 1
\* does not change it.
C4_LogLossOverMissingEntries ==
    ( /\ \/ call.op = "train_with_discrimination" /\ ~call.raised
         \/ call.op = "performance_log_with_discrimination"
      /\ Hidden(call.mask) # {} ) =>
        LET d == FirstScore(call).ret
            loss == DiscriminationLossOf(call)
        IN  /\ loss = Over(Neg(SumOver(LogOf(d), Hidden(call.mask))),
                           Cardinality(Hidden(call.mask)))
            /\ \A e \in Observed(call.mask) : \A v \in Probabilities :
                  get_generator_logLoss([d EXCEPT ![e[1]][e[2]] = v], call.mask) = loss

\* a completed train_with_discrimination call with an observed and a missing
\* entry, a finite loss, and an observed entry the discriminator doubts
C4_Witness ==
    /\ call.op = "train_with_discrimination"
    /\ ~call.raised
    /\ call.result # <<NaN>>
    /\ call.result # <<0>>
    /\ Hidden(call.mask) # {}
    /\ \E e \in Observed(call.mask) : FirstScore(call).ret[e[1]][e[2]] = Half

\* C6 as stated: generate and the two performance logs never call the tape
\* or the optimizer and leave the body and its parameter as they were: the
\* calls they make are to the body, the scoring function and the metrics
\* writer.  Across any sequence of calls the parameter changes only in a
\* training call that calls apply_gradients.
C6_ParametersChangeOnlyInTraining ==
    [][ /\ call'.op \in {"generate"} \cup LogOps =>
              /\ theta' = theta
              /\ body' = body
              /\ \A k \in 1..Len(call'.trace) :
                    call'.trace[k].callee \in {"body", "score", "scalar", "histogram"}
        /\ (theta' # theta \/ body' # body) =>
              /\ call'.op \in TrainOps
              /\ SelectSeq(call'.trace, IsApply) # <<>>
      ]_vars

\* C6, amended: generate and the two performance logs never call the tape or
\* the optimizer and leave the body and its parameter as they were.  The
\* body and its parameter change only in a training call that calls
\* apply_gradients (the body stays, its parameter moves) or in a load call
\* that does not raise (the body becomes the stored keras model).
C6_OnlyTrainingOrLoadMovesParameters ==
    [][ /\ call'.op \in {"generate"} \cup LogOps =>
              /\ theta' = theta
              /\ body' = body
              /\ \A k \in 1..Len(call'.trace) :
                    call'.trace[k].callee \in {"body", "score", "scalar", "histogram"}
        /\ (theta' # theta \/ body' # body) =>
              \/ /\ call'.op \in TrainOps
                 /\ SelectSeq(call'.trace, IsApply) # <<>>
                 /\ body' = body
              \/ /\ call'.op = "load"
                 /\ ~call'.raised
                 /\ body' = "keras"
                 /\ theta' = call'.trace[1].ret[1]
      ]_vars

\* a performance log made on a generator whose parameter training has moved
C6_Witness ==
    /\ call.op = "performance_log_with_discrimination"
    /\ call.theta_before = Half
    /\ theta = Half
    /\ Hidden(call.mask) # {}

AgreeObserved(x2, x, mask) == \A e \in Observed(mask) : x2[e[1]][e[2]] = x[e[1]][e[2]]

\* C9: the values of the data batch at the entries where mask = 0 have no
\* influence: a second run of generate, train_with_discrimination or
\* train_with_critic with the same mask, hints, draws, parameter and scoring
\* function, on a data batch x2 that agrees with the first at every entry
\* where mask = 1, hands the same tensor to the body and to the scoring
\* function, returns the same value and leaves the same parameter.
C9_HiddenValuesDoNotInterfere ==
    (call.op \in {"generate"} \cup TrainOps /\ call.trace # <<>>) =>
        \A x2 \in Data(NRows(call.data_batch)) :
            AgreeObserved(x2, call.data_batch, call.mask) =>
                LET noise == call.draws[1]
                    u == IF body = "generate_random" THEN call.draws[2] ELSE <<>>
                    th == call.theta_before
                    input2 == body_input(x2, call.mask, noise)
                    generated2 == call_body(body, th, input2, u)
                    DLoss2 == discrimination_loss(body, th, x2, call.mask, call.hints,
                                                  noise, u)
                    CLoss2 == critic_loss(body, th, x2, call.mask, call.hints, noise, u)
                IN  /\ call.trace[1].arg = input2
                    /\ call.op = "generate" => call.result = generated2
                    /\ HasScore(call) =>
                          FirstScore(call).arg = adjusted(generated2, call.mask, x2)
                    /\ (call.op = "train_with_discrimination" /\ ~call.raised) =>
                          /\ call.result = <<DLoss2>>
                          /\ theta = apply_gradients(
                                        th, discrimination_gradient(th, x2, call.mask,
                                                                    call.hints, noise))
                    /\ (call.op = "train_with_critic" /\ ~call.raised) =>
                          /\ call.result = <<CLoss2>>
                          /\ theta = apply_gradients(
                                        th, critic_gradient(th, x2, call.mask,
                                                            call.hints, noise))

\* a completed training call with a missing entry whose true value is not
\* zero, and which moved the parameter
C9_Witness ==
    /\ call.op = "train_with_discrimination"
    /\ ~call.raised
    /\ theta # call.theta_before
    /\ theta # NaN
    /\ \E e \in Hidden(call.mask) : call.data_batch[e[1]][e[2]] = One
    /\ Observed(call.mask) # {}

\* C10: the divisor sum(1 - mask) of the discrimination loss is not zero in
\* any train_with_discrimination or performance_log_with_discrimination call,
\* and the divisor sum(mask) of the known-value regeneration error is not
\* zero in any performance log; both losses are numbers.
C10_DivisorsAreNonzero ==
    /\ (call.op \in {"train_with_discrimination", "performance_log_with_discrimination"}
          /\ HasScore(call)) =>
          /\ reduce_sum(OneMinus(call.mask)) # 0
          /\ get_generator_logLoss(FirstScore(call).ret, call.mask) # NaN
    /\ call.op \in LogOps =>
          /\ reduce_sum(call.mask) # 0
          /\ get_total_generator_truth_error(call.data_batch, ScoredBody(call).ret,
                                             call.mask) # NaN

RowMajorBefore(f, e) == f[1] < e[1] \/ (f[1] = e[1] /\ f[2] < e[2])

\* the entries both masks leave at 0
Unknown(mask, hint_mask) == Hidden(mask) \cap Hidden(hint_mask)

\* C8: get_generated_value_errors returns one value for each entry where
\* mask = 0 and hint_mask = 0, the value generated_x - x at the entry, in
\* row-major order; the other entries contribute nothing.
C8_ErrorsOfUnknownEntries ==
    (call.op = "get_generated_value_errors" /\ call.done) =>
        LET sel == Unknown(call.mask, call.hint_mask)
            rank(e) == 1 + Cardinality({f \in sel : RowMajorBefore(f, e)})
        IN  /\ Len(call.result) = Cardinality(sel)
            /\ \A e \in sel :
                  call.result[rank(e)] = call.generated_x[e[1]][e[2]] - call.x[e[1]][e[2]]

\* an application with unknown entries in two rows and two columns whose
\* errors differ, and with an entry that is left out
C8_Witness ==
    /\ call.op = "get_generated_value_errors"
    /\ call.done
    /\ Len(call.result) = 3
    /\ call.result[1] # call.result[2]
    /\ call.result[2] # call.result[3]
    /\ call.result[1] # call.result[3]
    /\ <<1, 1>> \in Observed(call.mask)

====
